---- MODULE Spec2Model ----
(***************************************************************************)
(* minitunnel: a relay (cmd/server) that forwards public HTTP requests     *)
(* over one WebSocket per registered client, and the client (cmd/client)   *)
(* that keeps that WebSocket open with a reconnect loop.                   *)
(*                                                                         *)
(* The relay part models the registry, the /ws handler with its read loop, *)
(* the / handler with its path split and reply, and tunnel.send.  The      *)
(* client part models runClient, connect, the stop-watcher goroutine       *)
(* connect starts, and handleRequest with writeConn.                       *)
(***************************************************************************)
EXTENDS Integers, Sequences, FiniteSets, TLC

\* ------------------------------------------------------------------ bounds
\* Number of /ws requests the relay handles; each may create a session.
MaxSessions == 2
\* Number of public HTTP requests the router handles.
MaxCalls == 2
\* Number of public HTTP requests handled where both names can register.
MaxRegCalls == 1
\* Number of /ws requests handled where the progress of send is checked.
MaxFairSessions == 1
\* Number of requests, /ws and public together, the relay handles.
MaxHandled == 4

\* ------------------------------------------------------- relay: constants
\* The relay's AUTH_TOKEN and the tokens a client may present.
authToken == "secret"
Tokens == {"secret", "wrong"}
\* A Go string is the sequence of its characters; "" is the empty sequence.
Empty == <<>>
\* Service names of public requests, and the `service` parameters a /ws
\* request may carry: one of the names or "" (the parameter is absent).
Names == {<<"a">>, <<"b">>}
Services == {<<"a">>, Empty}
\* A nil *tunnel.
Nil == 0
Sessions == 1..MaxSessions
Calls == 1..MaxCalls
\* uuid.New().String(): a value no other request carries.  The c-th request
\* of the router gets the c-th uuid.
Uuid(c) == c
\* An id the relay never issued.
UnknownId == 0
\* A frame that json.Unmarshal rejects.
BadFrame == -1

VARIABLES
    tunnels,   \* registry.tunnels: service name -> session (Nil: no entry)
    nWs,       \* /ws requests handled so far; the k-th one makes session k
    wsReq,     \* token and service parameters of each /ws request
    wsStatus,  \* the handler's answer to each /ws request
    service,   \* the /ws handler's `service` of each session
    conn,      \* each session's connection: "none", "open", "broken" (the
               \* peer or the network ended it), "closing" (the read loop
               \* returned and the teardown unregistered the name), "closed"
               \* (by the teardown's conn.Close)
    pending,   \* tunnel.pending of each session: request id -> channel
    rl,        \* read loop between unlocking pMu and `ch <- resp`: <<ch, id>>
    wire,      \* request ids written on each session's connection
    mu,        \* tunnel.mu of each session: the request holding it, or Nil
    nCalls,    \* public requests handled so far
    pc,        \* position of each public request's handler
    csess,     \* the tunnel reg.get returned to each request
    ch,        \* the response channel send made (capacity 1), by request
    result,    \* what send returned to each request
    reply      \* what the router wrote to each public caller

svars == <<tunnels, nWs, wsReq, wsStatus, service, conn, pending, rl, wire,
           mu, nCalls, pc, csess, ch, result, reply>>

\* ----------------------------------------------------------------- client
\* Number of connections the client's Dial opens.
MaxConns == 2
\* Number of connect calls that return an error.
MaxAttempts == 6
\* Number of SIGINT/SIGTERM deliveries.
MaxSignals == 1
\* time.Second and 30*time.Second of runClient's delay, in seconds.
BaseDelay == 1
MaxDelay == 30
\* Capacity of main's stop channel: make(chan os.Signal, 1).
StopCap == 1
Conns == 1..MaxConns

VARIABLES
    rpc,       \* runClient: "connect", "read" (in connect's loop), "backoff", "exit"
    attempt,   \* runClient's attempt counter
    delay,     \* the delay runClient computed last, in seconds
    stop,      \* number of signals buffered in the stop channel
    nSignals,  \* signals delivered so far
    stopAt,    \* where runClient was when the first signal was delivered
    nConn,     \* connections opened so far; the current one is nConn
    cconn,     \* each client connection: "none", "open", "closed" (by
               \* conn.Close), "lost" (dropped by the relay or the network)
    watcher,   \* each connection's stop-watcher goroutine
    closeSent, \* connections on which the close frame was written
    echo       \* connections on which the peer's close frame has arrived

cvars == <<rpc, attempt, delay, stop, nSignals, stopAt, nConn, cconn, watcher,
           closeSent, echo>>

\* ------------------------------------------------ client: handling tasks
\* Number of Request frames the client decodes.
MaxReqs == 2
Reqs == 1..MaxReqs
\* The id of the r-th Request the client decodes: the relay gives every
\* Request its own uuid.
ReqId(r) == r
\* http.StatusBadGateway, and the status the local service answers with.
StatusBadGateway == 502
LocalStatus == 200
\* No task holds connMu.
Unlocked == 0

VARIABLES
    nReq,      \* Request frames decoded so far
    hpc,       \* each handling task: "none", "run" (in handleRequest up to
               \* writeConn), "lock" (at connMu.Lock), "writing" (in
               \* conn.WriteMessage, holding connMu), "done"
    hconn,     \* the connection each task got from connect
    hresp,     \* the Response each task passes to writeConn
    written,   \* the Responses each task has passed to conn.WriteMessage
    connMu     \* the task holding connMu, or Unlocked

hvars == <<nReq, hpc, hconn, hresp, written, connMu>>

\* ------------------------------------------------- relay: path of a request
\* Longest public path, in characters.
MaxPathLen == 4
\* The characters of a path and the raw queries of a request.
PathChars == {"/", "a", "x"}
RawQueries == {Empty, <<"y">>}

VARIABLES
    pPath,     \* r.URL.Path of a public request
    pQuery,    \* r.URL.RawQuery of the request
    pOut       \* what the router made of them

pvars == <<pPath, pQuery, pOut>>

vars == <<svars, cvars, hvars, pvars>>

\* -------------------------------------------------------- relay: registry
\* delete(m, k) of a Go map held as a function.
MapDelete(m, k) == [i \in DOMAIN m \ {k} |-> m[i]]
\* m[k] = v of a Go map held as a function.
MapPut(m, k, v) == [i \in DOMAIN m \cup {k} |-> IF i = k THEN v ELSE m[i]]

\* A register that builds the map anew with the one entry.
registerAlone(reg, name, t) == [n \in DOMAIN reg |-> IF n = name THEN t ELSE Nil]

\* registry.register
register(reg, name, t) == [reg EXCEPT ![name] = t]
\* registry.unregister
unregister(reg, name) == [reg EXCEPT ![name] = Nil]
\* registry.get
get(reg, name) == IF name \in DOMAIN reg THEN reg[name] ELSE Nil

NoResult == [kind |-> "none", id |-> UnknownId]

ServerInit ==
    /\ tunnels = [n \in Names |-> Nil]
    /\ nWs = 0
    /\ wsReq = [s \in Sessions |-> [token |-> "", service |-> Empty]]
    /\ wsStatus = [s \in Sessions |-> "none"]
    /\ service = [s \in Sessions |-> Empty]
    /\ conn = [s \in Sessions |-> "none"]
    /\ pending = [s \in Sessions |-> <<>>]
    /\ rl = [s \in Sessions |-> <<>>]
    /\ wire = [s \in Sessions |-> {}]
    /\ mu = [s \in Sessions |-> Nil]
    /\ nCalls = 0
    /\ pc = [c \in Calls |-> "idle"]
    /\ csess = [c \in Calls |-> Nil]
    /\ ch = [c \in Calls |-> <<>>]
    /\ result = [c \in Calls |-> NoResult]
    /\ reply = [c \in Calls |-> "none"]

\* ------------------------------------------------------ relay: /ws handler
\* The handler without its token check.
WsHandlerNoTokenCheck(token, svc, upgraded) ==
    /\ nWs < MaxSessions
    /\ nWs + nCalls < MaxHandled
    /\ nWs' = nWs + 1
    /\ LET k == nWs + 1 IN
       /\ wsReq' = [wsReq EXCEPT ![k] = [token |-> token, service |-> svc]]
       /\ IF svc = Empty
          THEN /\ wsStatus' = [wsStatus EXCEPT ![k] = "badrequest"]
               /\ UNCHANGED <<tunnels, service, conn>>
          ELSE IF ~upgraded
          THEN /\ wsStatus' = [wsStatus EXCEPT ![k] = "upgradefailed"]
               /\ UNCHANGED <<tunnels, service, conn>>
          ELSE /\ wsStatus' = [wsStatus EXCEPT ![k] = "registered"]
               /\ service' = [service EXCEPT ![k] = svc]
               /\ conn' = [conn EXCEPT ![k] = "open"]
               /\ tunnels' = register(tunnels, svc, k)
    /\ UNCHANGED <<pending, rl, wire, mu, nCalls, pc, csess, ch, result, reply>>
    /\ UNCHANGED <<cvars, hvars, pvars>>

\* The handler of /ws up to reg.register: the token check, the service
\* check, the upgrade (which may fail) and the registration of a new tunnel.
WsHandler(token, svc, upgraded) ==
    /\ nWs < MaxSessions
    /\ nWs + nCalls < MaxHandled
    /\ nWs' = nWs + 1
    /\ LET k == nWs + 1 IN
       /\ wsReq' = [wsReq EXCEPT ![k] = [token |-> token, service |-> svc]]
       /\ IF token # authToken
          THEN /\ wsStatus' = [wsStatus EXCEPT ![k] = "unauthorized"]
               /\ UNCHANGED <<tunnels, service, conn>>
          ELSE IF svc = Empty
          THEN /\ wsStatus' = [wsStatus EXCEPT ![k] = "badrequest"]
               /\ UNCHANGED <<tunnels, service, conn>>
          ELSE IF ~upgraded
          THEN /\ wsStatus' = [wsStatus EXCEPT ![k] = "upgradefailed"]
               /\ UNCHANGED <<tunnels, service, conn>>
          ELSE /\ wsStatus' = [wsStatus EXCEPT ![k] = "registered"]
               /\ service' = [service EXCEPT ![k] = svc]
               /\ conn' = [conn EXCEPT ![k] = "open"]
               /\ tunnels' = register(tunnels, svc, k)
    /\ UNCHANGED <<pending, rl, wire, mu, nCalls, pc, csess, ch, result, reply>>
    /\ UNCHANGED <<cvars, hvars, pvars>>

\* The read loop of a session runs from registration until ReadMessage
\* fails; it reads the frames the client sent while the connection is up.
Running(s) == conn[s] = "open"

\* The client closes the connection, the network drops it, or the client
\* sends what the WebSocket layer rejects: the next ReadMessage fails.
ConnBreak(s) ==
    /\ conn[s] = "open"
    /\ conn' = [conn EXCEPT ![s] = "broken"]
    /\ UNCHANGED <<tunnels, nWs, wsReq, wsStatus, service, pending, rl, wire,
                   mu, nCalls, pc, csess, ch, result, reply>>
    /\ UNCHANGED <<cvars, hvars, pvars>>

\* A lookup that ignores the id and returns a waiter of the table.
PendingLookupAny(p, id) ==
    IF DOMAIN p # {} THEN p[CHOOSE i \in DOMAIN p : TRUE] ELSE Nil

\* ch, ok := t.pending[resp.ID]: the channel, or Nil when !ok.
PendingLookup(p, id) == IF id \in DOMAIN p THEN p[id] ELSE Nil

\* The ids a frame sent by a client can carry: a uuid is unpredictable, so a
\* client knows the ids of the Requests written to a connection, and it can
\* make up ids the relay never issued.
FrameIds == {UnknownId} \cup UNION {wire[s] : s \in Sessions}

\* A read loop that returns, running the teardown, on an undecodable frame.
RLReadFrameStrict(s, f) ==
    /\ Running(s)
    /\ rl[s] = <<>>
    /\ IF f = BadFrame
       THEN /\ tunnels' = unregister(tunnels, service[s])
            /\ conn' = [conn EXCEPT ![s] = "closing"]
            /\ UNCHANGED <<pending, rl>>
       ELSE /\ LET c == PendingLookup(pending[s], f) IN
               IF c # Nil
               THEN /\ pending' = [pending EXCEPT ![s] = MapDelete(@, f)]
                    /\ rl' = [rl EXCEPT ![s] = <<c, f>>]
               ELSE UNCHANGED <<pending, rl>>
            /\ UNCHANGED <<tunnels, conn>>
    /\ UNCHANGED <<nWs, wsReq, wsStatus, service, wire,
                   mu, nCalls, pc, csess, ch, result, reply>>
    /\ UNCHANGED <<cvars, hvars, pvars>>

\* A read loop that leaves the pending entry of a matched Response in place.
RLReadFrameKeepEntry(s, f) ==
    /\ Running(s)
    /\ rl[s] = <<>>
    /\ IF f = BadFrame
       THEN UNCHANGED <<pending, rl>>
       ELSE LET c == PendingLookup(pending[s], f) IN
            IF c # Nil
            THEN /\ rl' = [rl EXCEPT ![s] = <<c, f>>]
                 /\ UNCHANGED pending
            ELSE UNCHANGED <<pending, rl>>
    /\ UNCHANGED <<tunnels, nWs, wsReq, wsStatus, service, conn, wire,
                   mu, nCalls, pc, csess, ch, result, reply>>
    /\ UNCHANGED <<cvars, hvars, pvars>>

\* One iteration of the read loop up to t.pMu.Unlock(): a frame is read; an
\* undecodable one is skipped; otherwise the pending entry of resp.ID is
\* looked up and, when found, deleted.
RLReadFrame(s, f) ==
    /\ Running(s)
    /\ rl[s] = <<>>
    /\ IF f = BadFrame
       THEN UNCHANGED <<pending, rl>>
       ELSE LET c == PendingLookup(pending[s], f) IN
            IF c # Nil
            THEN /\ pending' = [pending EXCEPT ![s] = MapDelete(@, f)]
                 /\ rl' = [rl EXCEPT ![s] = <<c, f>>]
            ELSE UNCHANGED <<pending, rl>>
    /\ UNCHANGED <<tunnels, nWs, wsReq, wsStatus, service, conn, wire,
                   mu, nCalls, pc, csess, ch, result, reply>>
    /\ UNCHANGED <<cvars, hvars, pvars>>

\* ReadMessage returns the next frame the client sent.
RLRead(s) == \E f \in FrameIds \cup {BadFrame} : RLReadFrame(s, f)

\* `ch <- resp`: blocks while the channel's one slot is taken.
RLDeliver(s) ==
    /\ rl[s] # <<>>
    /\ Len(ch[rl[s][1]]) < 1
    /\ ch' = [ch EXCEPT ![rl[s][1]] = Append(@, rl[s][2])]
    /\ rl' = [rl EXCEPT ![s] = <<>>]
    /\ UNCHANGED <<tunnels, nWs, wsReq, wsStatus, service, conn, pending, wire,
                   mu, nCalls, pc, csess, result, reply>>
    /\ UNCHANGED <<cvars, hvars, pvars>>

\* A teardown that also fails the sends waiting on the session: their
\* pending entries are dropped and each returns a connection error.
RLReadErrorFailWaiters(s) ==
    /\ conn[s] = "broken"
    /\ rl[s] = <<>>
    /\ tunnels' = unregister(tunnels, service[s])
    /\ conn' = [conn EXCEPT ![s] = "closing"]
    /\ LET W == {c \in Calls : pc[c] = "wait" /\ csess[c] = s
                               /\ Uuid(c) \in DOMAIN pending[s]} IN
       /\ pending' = [pending EXCEPT ![s] =
                         [i \in DOMAIN @ \ {Uuid(c) : c \in W} |-> @[i]]]
       /\ pc' = [c \in Calls |-> IF c \in W THEN "done" ELSE pc[c]]
       /\ result' = [c \in Calls |-> IF c \in W
                        THEN [kind |-> "connerr", id |-> UnknownId]
                        ELSE result[c]]
       /\ reply' = [c \in Calls |-> IF c \in W THEN "502 tunnel error"
                                    ELSE reply[c]]
    /\ UNCHANGED <<nWs, wsReq, wsStatus, service, rl, wire,
                   mu, nCalls, csess, ch>>
    /\ UNCHANGED <<cvars, hvars, pvars>>

\* ReadMessage returns an error: the handler returns and its deferred
\* function runs reg.unregister(service).
RLReadError(s) ==
    /\ conn[s] = "broken"
    /\ rl[s] = <<>>
    /\ tunnels' = unregister(tunnels, service[s])
    /\ conn' = [conn EXCEPT ![s] = "closing"]
    /\ UNCHANGED <<nWs, wsReq, wsStatus, service, pending, rl, wire,
                   mu, nCalls, pc, csess, ch, result, reply>>
    /\ UNCHANGED <<cvars, hvars, pvars>>

\* The deferred function of the /ws handler after reg.unregister:
\* conn.Close().
TeardownClose(s) ==
    /\ conn[s] = "closing"
    /\ conn' = [conn EXCEPT ![s] = "closed"]
    /\ UNCHANGED <<tunnels, nWs, wsReq, wsStatus, service, pending, rl, wire,
                   mu, nCalls, pc, csess, ch, result, reply>>
    /\ UNCHANGED <<cvars, hvars, pvars>>

\* The read loop of the session has returned.
Terminated(s) == conn[s] \in {"closing", "closed"}

\* ------------------------------------------------------ relay: path split
\* strings.HasPrefix
HasPrefix(s, prefix) ==
    Len(s) >= Len(prefix) /\ SubSeq(s, 1, Len(prefix)) = prefix

\* strings.TrimLeft with a one-character cutset: every leading occurrence
\* is removed.
RECURSIVE TrimLeft(_, _)
TrimLeft(s, prefix) ==
    IF prefix # Empty /\ HasPrefix(s, prefix)
    THEN TrimLeft(SubSeq(s, Len(prefix) + 1, Len(s)), prefix)
    ELSE s

\* strings.TrimPrefix: s without the prefix when it starts with it, else s.
TrimPrefix(s, prefix) ==
    IF HasPrefix(s, prefix) THEN SubSeq(s, Len(prefix) + 1, Len(s)) ELSE s

\* strings.Index for a one-character separator: the 0-based index of its
\* first occurrence, or -1.
RECURSIVE Index(_, _)
Index(s, sep) ==
    IF s = Empty THEN -1
    ELSE IF Head(s) = sep THEN 0
    ELSE LET i == Index(Tail(s), sep) IN IF i < 0 THEN -1 ELSE i + 1

\* strings.SplitN(s, sep, n) for n >= 1 and a one-character separator: at
\* most n substrings, the last one the unsplit remainder.
RECURSIVE SplitN(_, _, _)
SplitN(s, sep, n) ==
    LET m == Index(s, sep) IN
    IF n <= 1 \/ m < 0
    THEN <<s>>
    ELSE <<SubSeq(s, 1, m)>> \o SplitN(SubSeq(s, m + 2, Len(s)), sep, n - 1)

\* The head of the / handler: r.URL.Path is split into the service name and
\* the remainder, and the raw query is put back on the forwarded path.
\* ok is FALSE where the handler answers 400.
RouterSplit(path, rawQuery) ==
    LET p == TrimPrefix(path, <<"/">>)
        parts == SplitN(p, "/", 2)
    IN  IF Len(parts) = 0 \/ parts[1] = Empty
        THEN [ok |-> FALSE, service |-> Empty, forwardPath |-> Empty]
        ELSE LET remainder == IF Len(parts) = 2 THEN <<"/">> \o parts[2]
                                                ELSE <<"/">>
             IN  [ok |-> TRUE, service |-> parts[1],
                  forwardPath |-> IF rawQuery # Empty
                                  THEN remainder \o <<"?">> \o rawQuery
                                  ELSE remainder]

\* ----------------------------------------------------------- relay: router
\* Paths of the public requests the router handles.
PublicPaths == {<<"/">>, <<"/", "a">>, <<"/", "b", "/", "x">>}

\* The handler of / up to io.ReadAll(r.Body): the path is split; a path
\* without a service name is answered 400; the name is looked up and an
\* unregistered one answered 502; otherwise the handler holds the tunnel and
\* reads the body.  The query string does not take part in the routing.
RouterRequest(path) ==
    /\ nCalls < MaxCalls
    /\ nWs + nCalls < MaxHandled
    /\ nCalls' = nCalls + 1
    /\ LET c == nCalls + 1
           sp == RouterSplit(path, Empty)
           t == get(tunnels, sp.service) IN
       IF ~sp.ok
       THEN /\ pc' = [pc EXCEPT ![c] = "done"]
            /\ reply' = [reply EXCEPT ![c] = "400 no service"]
            /\ UNCHANGED <<csess, result>>
       ELSE IF t = Nil
       THEN /\ pc' = [pc EXCEPT ![c] = "done"]
            /\ result' = [result EXCEPT ![c] = [kind |-> "notfound", id |-> UnknownId]]
            /\ reply' = [reply EXCEPT ![c] = "502 not found"]
            /\ UNCHANGED csess
       ELSE /\ pc' = [pc EXCEPT ![c] = "body"]
            /\ csess' = [csess EXCEPT ![c] = t]
            /\ UNCHANGED <<result, reply>>
    /\ UNCHANGED <<tunnels, nWs, wsReq, wsStatus, service, conn, pending, rl,
                   wire, mu, ch>>
    /\ UNCHANGED <<cvars, hvars, pvars>>

\* A send that goes on to write its Request without registering the waiter.
RouterSendNoRegister(c, bodyOk) ==
    /\ pc[c] = "body"
    /\ IF ~bodyOk
       THEN /\ pc' = [pc EXCEPT ![c] = "done"]
            /\ reply' = [reply EXCEPT ![c] = "500 body"]
            /\ UNCHANGED pending
       ELSE /\ pc' = [pc EXCEPT ![c] = "write"]
            /\ UNCHANGED <<pending, reply>>
    /\ UNCHANGED <<tunnels, nWs, wsReq, wsStatus, service, conn, rl, wire, mu,
                   nCalls, csess, ch, result>>
    /\ UNCHANGED <<cvars, hvars, pvars>>

\* io.ReadAll(r.Body) returns: a failure is answered 500; otherwise the
\* handler builds the Request and calls send on the tunnel it holds, which
\* makes its channel and puts it in the pending table under req.ID.
RouterSend(c, bodyOk) ==
    /\ pc[c] = "body"
    /\ IF ~bodyOk
       THEN /\ pc' = [pc EXCEPT ![c] = "done"]
            /\ reply' = [reply EXCEPT ![c] = "500 body"]
            /\ UNCHANGED pending
       ELSE /\ pc' = [pc EXCEPT ![c] = "write"]
            /\ pending' = [pending EXCEPT ![csess[c]] = MapPut(@, Uuid(c), c)]
            /\ UNCHANGED reply
    /\ UNCHANGED <<tunnels, nWs, wsReq, wsStatus, service, conn, rl, wire, mu,
                   nCalls, csess, ch, result>>
    /\ UNCHANGED <<cvars, hvars, pvars>>

\* ------------------------------------------------------ relay: tunnel.send
\* t.mu.Lock(): blocks while another send holds the lock.
SendLock(c) ==
    /\ pc[c] = "write"
    /\ mu[csess[c]] = Nil
    /\ mu' = [mu EXCEPT ![csess[c]] = c]
    /\ pc' = [pc EXCEPT ![c] = "writing"]
    /\ UNCHANGED <<tunnels, nWs, wsReq, wsStatus, service, conn, pending, rl,
                   wire, nCalls, csess, ch, result, reply>>
    /\ UNCHANGED <<cvars, hvars, pvars>>

\* Whether t.conn.WriteJSON can succeed: always on an open connection, never
\* on one the teardown closed; on one the peer or the network ended and the
\* teardown has not closed yet, the write succeeds (into the socket buffer)
\* or fails.
WriteOutcomes(c) ==
    IF c = "open" THEN {TRUE}
    ELSE IF c \in {"broken", "closing"} THEN {TRUE, FALSE}
    ELSE {FALSE}

\* send that keeps t.mu locked after a successful write.
SendWriteKeepLock(c) ==
    /\ pc[c] = "writing"
    /\ \E ok \in WriteOutcomes(conn[csess[c]]) :
         IF ok
         THEN /\ wire' = [wire EXCEPT ![csess[c]] = @ \cup {Uuid(c)}]
              /\ pc' = [pc EXCEPT ![c] = "wait"]
              /\ UNCHANGED mu
         ELSE /\ mu' = [mu EXCEPT ![csess[c]] = Nil]
              /\ pc' = [pc EXCEPT ![c] = "failed"]
              /\ UNCHANGED wire
    /\ UNCHANGED <<tunnels, nWs, wsReq, wsStatus, service, conn, pending, rl,
                   nCalls, csess, ch, result, reply>>
    /\ UNCHANGED <<cvars, hvars, pvars>>

\* t.conn.WriteJSON(req) and t.mu.Unlock(): after a successful write send
\* enters its select, after a failed one its error path.
SendWrite(c) ==
    /\ pc[c] = "writing"
    /\ mu' = [mu EXCEPT ![csess[c]] = Nil]
    /\ \E ok \in WriteOutcomes(conn[csess[c]]) :
         IF ok
         THEN /\ wire' = [wire EXCEPT ![csess[c]] = @ \cup {Uuid(c)}]
              /\ pc' = [pc EXCEPT ![c] = "wait"]
         ELSE /\ pc' = [pc EXCEPT ![c] = "failed"]
              /\ UNCHANGED wire
    /\ UNCHANGED <<tunnels, nWs, wsReq, wsStatus, service, conn, pending, rl,
                   nCalls, csess, ch, result, reply>>
    /\ UNCHANGED <<cvars, hvars, pvars>>

\* send whose error path returns without deleting the pending entry.
SendWriteErrorLeak(c) ==
    /\ pc[c] = "failed"
    /\ result' = [result EXCEPT ![c] = [kind |-> "connerr", id |-> UnknownId]]
    /\ reply' = [reply EXCEPT ![c] = "502 tunnel error"]
    /\ pc' = [pc EXCEPT ![c] = "done"]
    /\ UNCHANGED <<tunnels, nWs, wsReq, wsStatus, service, conn, pending, rl,
                   wire, mu, nCalls, csess, ch>>
    /\ UNCHANGED <<cvars, hvars, pvars>>

\* The error path of send after t.mu.Unlock(): the pending entry is deleted
\* under pMu, send returns the error and the router answers 502 "tunnel
\* error: ...".
SendWriteError(c) ==
    /\ pc[c] = "failed"
    /\ pending' = [pending EXCEPT ![csess[c]] = MapDelete(@, Uuid(c))]
    /\ result' = [result EXCEPT ![c] = [kind |-> "connerr", id |-> UnknownId]]
    /\ reply' = [reply EXCEPT ![c] = "502 tunnel error"]
    /\ pc' = [pc EXCEPT ![c] = "done"]
    /\ UNCHANGED <<tunnels, nWs, wsReq, wsStatus, service, conn, rl, wire, mu,
                   nCalls, csess, ch>>
    /\ UNCHANGED <<cvars, hvars, pvars>>

\* What w.WriteHeader(resp.Status) and w.Write do.  The status is whatever
\* number the client's frame carries, 0 when the frame has no status; the
\* relay looks at it here for the first time.  net/http's WriteHeader panics
\* on a code outside 100..999 ("invalid WriteHeader code"); the server
\* recovers the panic and closes the public connection, no response written.
WriteReply(validStatus) == IF validStatus THEN "response" ELSE "aborted"

\* case resp := <-ch: return resp, nil; the router then writes the headers,
\* the status and the body of resp to the public caller.
SendReceive(c) ==
    /\ pc[c] = "wait"
    /\ ch[c] # <<>>
    /\ result' = [result EXCEPT ![c] = [kind |-> "resp", id |-> Head(ch[c])]]
    /\ ch' = [ch EXCEPT ![c] = Tail(@)]
    /\ \E validStatus \in BOOLEAN :
         reply' = [reply EXCEPT ![c] = WriteReply(validStatus)]
    /\ pc' = [pc EXCEPT ![c] = "done"]
    /\ UNCHANGED <<tunnels, nWs, wsReq, wsStatus, service, conn, pending, rl, wire,
                   mu, nCalls, csess>>
    /\ UNCHANGED <<cvars, hvars, pvars>>

\* A timeout that is taken only while the session's connection is open.
SendTimeoutWhileOpen(c) ==
    /\ pc[c] = "wait"
    /\ conn[csess[c]] = "open"
    /\ pending' = [pending EXCEPT ![csess[c]] = MapDelete(@, Uuid(c))]
    /\ result' = [result EXCEPT ![c] = [kind |-> "timeout", id |-> UnknownId]]
    /\ reply' = [reply EXCEPT ![c] = "502 tunnel error"]
    /\ pc' = [pc EXCEPT ![c] = "done"]
    /\ UNCHANGED <<tunnels, nWs, wsReq, wsStatus, service, conn, rl, wire,
                   mu, nCalls, csess, ch>>
    /\ UNCHANGED <<cvars, hvars, pvars>>

\* case <-time.After(30 * time.Second): the entry is deleted and
\* http.ErrHandlerTimeout returned; the router answers 502 "tunnel error:
\* ...".  The timer may fire at any moment of the wait, also when a response
\* is already in the channel.
SendTimeout(c) ==
    /\ pc[c] = "wait"
    /\ pending' = [pending EXCEPT ![csess[c]] = MapDelete(@, Uuid(c))]
    /\ result' = [result EXCEPT ![c] = [kind |-> "timeout", id |-> UnknownId]]
    /\ reply' = [reply EXCEPT ![c] = "502 tunnel error"]
    /\ pc' = [pc EXCEPT ![c] = "done"]
    /\ UNCHANGED <<tunnels, nWs, wsReq, wsStatus, service, conn, rl, wire,
                   mu, nCalls, csess, ch>>
    /\ UNCHANGED <<cvars, hvars, pvars>>

\* ------------------------------------------------------ client: runClient
ClientInit ==
    /\ rpc = "connect"
    /\ attempt = 0
    /\ delay = 0
    /\ stop = 0
    /\ nSignals = 0
    /\ stopAt = "none"
    /\ nConn = 0
    /\ cconn = [k \in Conns |-> "none"]
    /\ watcher = [k \in Conns |-> "none"]
    /\ closeSent = [k \in Conns |-> FALSE]
    /\ echo = [k \in Conns |-> FALSE]

Min(a, b) == IF a < b THEN a ELSE b

\* time.Duration(math.Min(float64(time.Second) * math.Pow(2, float64(attempt)),
\* float64(30 * time.Second))), in seconds: every value is a whole number of
\* seconds that a float64 holds exactly.
Delay(a) == Min(BaseDelay * 2 ^ a, MaxDelay)

\* runClient after connect returned an error: attempt++, the delay is
\* computed from the incremented counter, and runClient waits in the select.
ConnectFailed ==
    /\ attempt' = attempt + 1
    /\ delay' = Delay(attempt + 1)
    /\ rpc' = "backoff"

\* connect: websocket.DefaultDialer.Dial fails and connect returns the error.
DialFail ==
    /\ rpc = "connect"
    /\ attempt < MaxAttempts
    /\ ConnectFailed
    /\ UNCHANGED <<stop, nSignals, stopAt, nConn, cconn, watcher, closeSent, echo>>
    /\ UNCHANGED <<svars, hvars, pvars>>

\* connect: Dial succeeds, the stop-watcher goroutine of the connection is
\* started and connect enters its read loop.
DialOk ==
    /\ rpc = "connect"
    /\ nConn < MaxConns
    /\ nConn' = nConn + 1
    /\ cconn' = [cconn EXCEPT ![nConn + 1] = "open"]
    /\ watcher' = [watcher EXCEPT ![nConn + 1] = "wait"]
    /\ rpc' = "read"
    /\ UNCHANGED <<attempt, delay, stop, nSignals, stopAt, closeSent, echo>>
    /\ UNCHANGED <<svars, hvars, pvars>>

\* signal.Notify's delivery of SIGINT or SIGTERM: a send on the stop channel
\* that does not block; a signal that finds the channel full is dropped.
SignalDeliver ==
    /\ rpc # "exit"
    /\ nSignals < MaxSignals
    /\ nSignals' = nSignals + 1
    /\ stop' = IF stop < StopCap THEN stop + 1 ELSE stop
    /\ stopAt' = IF stopAt = "none" THEN rpc ELSE stopAt
    /\ UNCHANGED <<rpc, attempt, delay, nConn, cconn, watcher, closeSent, echo>>
    /\ UNCHANGED <<svars, hvars, pvars>>

\* The stop-watcher goroutine of connection k: `<-stop`.  The goroutine
\* outlives the connect call that started it: nothing ends it when connect
\* returns.  A goroutine blocked on the channel takes a value sent to it.
WatcherRecv(k) ==
    /\ rpc # "exit"
    /\ watcher[k] = "wait"
    /\ stop > 0
    /\ stop' = stop - 1
    /\ watcher' = [watcher EXCEPT ![k] = "got"]
    /\ UNCHANGED <<rpc, attempt, delay, nSignals, stopAt, nConn, cconn, closeSent, echo>>
    /\ UNCHANGED <<svars, hvars, pvars>>

\* The stop-watcher calls conn.WriteMessage(websocket.CloseMessage, ...):
\* the call takes no lock.
WatcherWriteBegin(k) ==
    /\ rpc # "exit"
    /\ watcher[k] = "got"
    /\ watcher' = [watcher EXCEPT ![k] = "writing"]
    /\ UNCHANGED <<rpc, attempt, delay, stop, nSignals, stopAt, nConn, cconn,
                   closeSent, echo>>
    /\ UNCHANGED <<svars, hvars, pvars>>

\* The stop-watcher's conn.WriteMessage returns.  On a connection that is
\* already closed the write fails and the error is dropped.
WatcherWriteClose(k) ==
    /\ rpc # "exit"
    /\ watcher[k] = "writing"
    /\ watcher' = [watcher EXCEPT ![k] = "wrote"]
    /\ closeSent' = [closeSent EXCEPT ![k] = (cconn[k] = "open") \/ @]
    /\ UNCHANGED <<rpc, attempt, delay, stop, nSignals, stopAt, nConn, cconn, echo>>
    /\ UNCHANGED <<svars, hvars, pvars>>

\* The stop-watcher: conn.Close().
WatcherConnClose(k) ==
    /\ rpc # "exit"
    /\ watcher[k] = "wrote"
    /\ watcher' = [watcher EXCEPT ![k] = "done"]
    /\ cconn' = [cconn EXCEPT ![k] = IF @ = "open" THEN "closed" ELSE @]
    /\ UNCHANGED <<rpc, attempt, delay, stop, nSignals, stopAt, nConn, closeSent, echo>>
    /\ UNCHANGED <<svars, hvars, pvars>>

\* The relay's end answers a close frame with a close frame of the same code
\* (the websocket library's close handler); the answer reaches the client.
PeerEcho(k) ==
    /\ rpc # "exit"
    /\ closeSent[k]
    /\ ~echo[k]
    /\ echo' = [echo EXCEPT ![k] = TRUE]
    /\ UNCHANGED <<rpc, attempt, delay, stop, nSignals, stopAt, nConn, cconn, watcher, closeSent>>
    /\ UNCHANGED <<svars, hvars, pvars>>

\* connect's read loop: ReadMessage returns the peer's close frame as a
\* CloseNormalClosure error and connect returns nil (its deferred conn.Close
\* runs); runClient returns.
ReadCloseFrame ==
    /\ rpc = "read"
    /\ cconn[nConn] = "open"
    /\ echo[nConn]
    /\ cconn' = [cconn EXCEPT ![nConn] = "closed"]
    /\ rpc' = "exit"
    /\ UNCHANGED <<attempt, delay, stop, nSignals, stopAt, nConn, watcher, closeSent, echo>>
    /\ UNCHANGED <<svars, hvars, pvars>>

\* connect's read loop: ReadMessage fails on the connection the stop-watcher
\* closed ("use of closed network connection", not a close error) and
\* connect returns that error.
ReadClosedConn ==
    /\ rpc = "read"
    /\ cconn[nConn] = "closed"
    /\ attempt < MaxAttempts
    /\ ConnectFailed
    /\ UNCHANGED <<stop, nSignals, stopAt, nConn, cconn, watcher, closeSent, echo>>
    /\ UNCHANGED <<svars, hvars, pvars>>

\* connect's read loop: the relay or the network drops the connection,
\* ReadMessage returns an error that is not a normal closure, and connect
\* returns it after its deferred conn.Close.
ConnLost ==
    /\ rpc = "read"
    /\ cconn[nConn] = "open"
    /\ attempt < MaxAttempts
    /\ cconn' = [cconn EXCEPT ![nConn] = "lost"]
    /\ ConnectFailed
    /\ UNCHANGED <<stop, nSignals, stopAt, nConn, watcher, closeSent, echo>>
    /\ UNCHANGED <<svars, hvars, pvars>>

\* runClient's select: case <-stop: return
StopInBackoff ==
    /\ rpc = "backoff"
    /\ stop > 0
    /\ stop' = stop - 1
    /\ rpc' = "exit"
    /\ UNCHANGED <<attempt, delay, nSignals, stopAt, nConn, cconn, watcher, closeSent, echo>>
    /\ UNCHANGED <<svars, hvars, pvars>>

\* runClient's select: case <-time.After(delay): the loop calls connect
\* again.  A signal sent while runClient is blocked in the select is handed
\* to a blocked receiver, so the timer case is taken with the channel empty.
BackoffElapsed ==
    /\ rpc = "backoff"
    /\ stop = 0
    /\ rpc' = "connect"
    /\ UNCHANGED <<attempt, delay, stop, nSignals, stopAt, nConn, cconn, watcher, closeSent, echo>>
    /\ UNCHANGED <<svars, hvars, pvars>>

\* ------------------------------------------------ client: handling tasks
NoResponse == [id |-> 0, status |-> 0, body |-> "none"]

HandlerInit ==
    /\ nReq = 0
    /\ hpc = [r \in Reqs |-> "none"]
    /\ hconn = [r \in Reqs |-> 0]
    /\ hresp = [r \in Reqs |-> NoResponse]
    /\ written = [r \in Reqs |-> <<>>]
    /\ connMu = Unlocked

\* connect's read loop: ReadMessage returns a frame of the relay.  A frame
\* json.Unmarshal rejects is logged and skipped; for a Request the loop
\* starts `go handleRequest(conn, client, localTarget, req)`.
ReadFrame(decodes) ==
    /\ rpc = "read"
    /\ cconn[nConn] = "open"
    /\ nReq < MaxReqs
    /\ IF decodes
       THEN /\ nReq' = nReq + 1
            /\ hpc' = [hpc EXCEPT ![nReq + 1] = "run"]
            /\ hconn' = [hconn EXCEPT ![nReq + 1] = nConn]
       ELSE UNCHANGED <<nReq, hpc, hconn>>
    /\ UNCHANGED <<hresp, written, connMu>>
    /\ UNCHANGED <<svars, cvars, pvars>>

ReadMessage == \E decodes \in BOOLEAN : ReadFrame(decodes)

\* How far the local call of a handling task gets: http.NewRequest fails,
\* client.Do fails, io.ReadAll fails, or the local service's answer is read.
Outcomes == {"newrequest", "do", "readall", "ok"}

\* sendError's Response for the three failures, tunnelResp otherwise.
ResponseOf(id, outcome) ==
    IF outcome = "ok"
    THEN [id |-> id, status |-> LocalStatus, body |-> "local"]
    ELSE [id |-> id, status |-> StatusBadGateway,
          body |-> IF outcome = "newrequest" THEN "failed to create request"
                   ELSE IF outcome = "do" THEN "local request failed"
                   ELSE "failed to read response"]

\* handleRequest that logs a failed body read and returns without an answer.
HandleRequestSilent(r, outcome) ==
    /\ rpc # "exit"
    /\ hpc[r] = "run"
    /\ IF outcome = "readall"
       THEN /\ hpc' = [hpc EXCEPT ![r] = "done"]
            /\ UNCHANGED hresp
       ELSE /\ hresp' = [hresp EXCEPT ![r] = ResponseOf(ReqId(r), outcome)]
            /\ hpc' = [hpc EXCEPT ![r] = "lock"]
    /\ UNCHANGED <<nReq, hconn, written, connMu>>
    /\ UNCHANGED <<svars, cvars, pvars>>

\* handleRequest up to connMu.Lock() in writeConn: the local call is made,
\* and on every path exactly one of sendError and writeConn is called, with
\* a Response that carries req.ID.
HandleRequest(r, outcome) ==
    /\ rpc # "exit"
    /\ hpc[r] = "run"
    /\ hresp' = [hresp EXCEPT ![r] = ResponseOf(ReqId(r), outcome)]
    /\ hpc' = [hpc EXCEPT ![r] = "lock"]
    /\ UNCHANGED <<nReq, hconn, written, connMu>>
    /\ UNCHANGED <<svars, cvars, pvars>>

\* writeConn: connMu.Lock() and the call of conn.WriteMessage.
WriteConnLock(r) ==
    /\ rpc # "exit"
    /\ hpc[r] = "lock"
    /\ connMu = Unlocked
    /\ connMu' = r
    /\ written' = [written EXCEPT ![r] = Append(@, hresp[r])]
    /\ hpc' = [hpc EXCEPT ![r] = "writing"]
    /\ UNCHANGED <<nReq, hconn, hresp>>
    /\ UNCHANGED <<svars, cvars, pvars>>

\* writeConn: conn.WriteMessage returns (an error is logged) and the
\* deferred connMu.Unlock() runs.
WriteConnUnlock(r) ==
    /\ rpc # "exit"
    /\ hpc[r] = "writing"
    /\ connMu' = Unlocked
    /\ hpc' = [hpc EXCEPT ![r] = "done"]
    /\ UNCHANGED <<nReq, hconn, hresp, written>>
    /\ UNCHANGED <<svars, cvars, pvars>>

\* The tasks inside conn.WriteMessage on connection k: handling tasks, and
\* 0 for the connection's stop-watcher.
Writers(k) ==
    {r \in Reqs : hpc[r] = "writing" /\ hconn[r] = k}
        \cup (IF watcher[k] = "writing" THEN {0} ELSE {})

\* ------------------------------------------------- relay: path of a request
NoSplit == [ok |-> FALSE, service |-> Empty, forwardPath |-> <<"none">>]

PathIdle ==
    /\ pPath = Empty
    /\ pQuery = Empty
    /\ pOut = NoSplit

\* Every path of at most MaxPathLen characters.
Paths == UNION {[1..n -> PathChars] : n \in 0..MaxPathLen}

\* A public request arrives with some path and some raw query.
PathInit ==
    /\ ServerInit /\ ClientInit /\ HandlerInit
    /\ pPath \in Paths
    /\ pQuery \in RawQueries
    /\ pOut = NoSplit

\* The head of the / handler applied to the request.
RouterParse ==
    /\ pOut = NoSplit
    /\ pOut' = RouterSplit(pPath, pQuery)
    /\ UNCHANGED <<pPath, pQuery>>
    /\ UNCHANGED <<svars, cvars, hvars>>

PathNext == RouterParse

PathSpec == PathInit /\ [][PathNext]_vars

\* The state after construction: the relay's registry is empty and no request
\* was handled; the client is about to call connect for the first time.
Init == ServerInit /\ ClientInit /\ HandlerInit /\ PathIdle

ClientNext ==
    \/ DialFail
    \/ DialOk
    \/ SignalDeliver
    \/ \E k \in Conns : WatcherRecv(k)
    \/ \E k \in Conns : WatcherWriteBegin(k)
    \/ \E k \in Conns : WatcherWriteClose(k)
    \/ \E k \in Conns : WatcherConnClose(k)
    \/ \E k \in Conns : PeerEcho(k)
    \/ ReadCloseFrame
    \/ ReadClosedConn
    \/ ConnLost
    \/ StopInBackoff
    \/ BackoffElapsed

ClientSpec == Init /\ [][ClientNext]_vars

\* One call of connect, from Dial to its return, with the stop-watcher and
\* the handling tasks it starts; the tasks run on after connect returned.
HandlerNext ==
    \/ DialOk
    \/ SignalDeliver
    \/ \E k \in Conns : WatcherRecv(k)
    \/ \E k \in Conns : WatcherWriteBegin(k)
    \/ \E k \in Conns : WatcherWriteClose(k)
    \/ \E k \in Conns : WatcherConnClose(k)
    \/ \E k \in Conns : PeerEcho(k)
    \/ ReadCloseFrame
    \/ ReadClosedConn
    \/ ConnLost
    \/ ReadMessage
    \/ \E r \in Reqs, outcome \in Outcomes : HandleRequest(r, outcome)
    \/ \E r \in Reqs : WriteConnLock(r)
    \/ \E r \in Reqs : WriteConnUnlock(r)

HandlerSpec == Init /\ [][HandlerNext]_vars

\* ----------------------------------------------------------- relay: spec
ServerNext ==
    \/ \E token \in Tokens, svc \in Services, upgraded \in BOOLEAN :
          WsHandler(token, svc, upgraded)
    \/ \E s \in Sessions : RLRead(s)
    \/ \E s \in Sessions : RLDeliver(s)
    \/ \E s \in Sessions : RLReadError(s)
    \/ \E s \in Sessions : TeardownClose(s)
    \/ \E s \in Sessions : ConnBreak(s)
    \/ \E path \in PublicPaths : RouterRequest(path)
    \/ \E c \in Calls, bodyOk \in BOOLEAN : RouterSend(c, bodyOk)
    \/ \E c \in Calls : SendLock(c)
    \/ \E c \in Calls : SendWrite(c)
    \/ \E c \in Calls : SendWriteError(c)
    \/ \E c \in Calls : SendReceive(c)
    \/ \E c \in Calls : SendTimeout(c)

ServerSpec == Init /\ [][ServerNext]_vars

\* The relay with at most MaxFairSessions /ws requests.
FairWsHandler(token, svc, upgraded) ==
    /\ nWs < MaxFairSessions
    /\ WsHandler(token, svc, upgraded)

FairNext ==
    \/ \E token \in Tokens, svc \in Services, upgraded \in BOOLEAN :
          FairWsHandler(token, svc, upgraded)
    \/ \E s \in Sessions : RLRead(s)
    \/ \E s \in Sessions : RLDeliver(s)
    \/ \E s \in Sessions : ConnBreak(s)
    \/ \E s \in Sessions : RLReadError(s)
    \/ \E s \in Sessions : TeardownClose(s)
    \/ \E path \in PublicPaths : RouterRequest(path)
    \/ \E c \in Calls, bodyOk \in BOOLEAN : RouterSend(c, bodyOk)
    \/ \E c \in Calls : SendLock(c)
    \/ \E c \in Calls : SendWrite(c)
    \/ \E c \in Calls : SendWriteError(c)
    \/ \E c \in Calls : SendReceive(c)
    \/ \E c \in Calls : SendTimeout(c)

\* time.After fires 30 seconds after send starts to wait and a goroutine
\* blocked in a select with a ready case is scheduled: the select of every
\* waiting send is eventually taken.
ServerFairSpec ==
    /\ Init /\ [][FairNext]_vars
    /\ \A c \in Calls : WF_vars(SendReceive(c) \/ SendTimeout(c))

\* The relay with both service names open to registration, and at most
\* MaxRegCalls public requests.
RegRouterRequest(path) ==
    /\ nCalls < MaxRegCalls
    /\ RouterRequest(path)

RegistryNext ==
    \/ \E token \in Tokens, svc \in Names \cup {Empty}, upgraded \in BOOLEAN :
          WsHandler(token, svc, upgraded)
    \/ \E s \in Sessions : RLRead(s)
    \/ \E s \in Sessions : RLDeliver(s)
    \/ \E s \in Sessions : ConnBreak(s)
    \/ \E s \in Sessions : RLReadError(s)
    \/ \E s \in Sessions : TeardownClose(s)
    \/ \E path \in PublicPaths : RegRouterRequest(path)
    \/ \E c \in Calls, bodyOk \in BOOLEAN : RouterSend(c, bodyOk)
    \/ \E c \in Calls : SendLock(c)
    \/ \E c \in Calls : SendWrite(c)
    \/ \E c \in Calls : SendWriteError(c)
    \/ \E c \in Calls : SendReceive(c)
    \/ \E c \in Calls : SendTimeout(c)

RegistrySpec == Init /\ [][RegistryNext]_vars

\* ------------------------------------------------------------ relay: claims

\* C1: every Response send returns carries the id of the Request that send
\* was called with, whatever the number of sends in flight on the session and
\* the order in which the client answers them.
C1_ResponseIdMatches ==
    \A c \in Calls : result[c].kind = "resp" => result[c].id = Uuid(c)

\* Two sends in flight on one session, the later one answered first.
C1_Witness ==
    \E c, d \in Calls :
        /\ c < d
        /\ csess[c] = csess[d]
        /\ pc[c] = "wait"
        /\ result[d].kind = "resp"

\* C2: a Response the read loop matched to a waiter (it removed the pending
\* entry) is never lost: send returns the timeout error only when its own
\* timeout branch removed the entry, so a send that returned the timeout
\* error has no Response in its channel or on the way to it.
C2_MatchedResponseNeverLost ==
    \A c \in Calls :
        result[c].kind = "timeout" =>
            /\ ch[c] = <<>>
            /\ \A s \in Sessions : rl[s] = <<>> \/ rl[s][1] # c

\* C3: a send whose write succeeded eventually returns, with the Response or
\* with the timeout error, and what it returned never changes afterwards.
C3_SendReturns ==
    /\ \A c \in Calls :
          (pc[c] = "wait") ~>
              (pc[c] = "done" /\ result[c].kind \in {"resp", "timeout"})
    /\ [][\A c \in Calls : pc[c] = "done" =>
              pc'[c] = "done" /\ result'[c] = result[c]]_svars

\* A send timed out on a session whose read loop had terminated.
C3_Witness ==
    \E c \in Calls :
        /\ result[c].kind = "timeout"
        /\ Terminated(csess[c])

\* C4: when send has returned, the session's pending table holds no entry
\* for the request's id; a send that returned the connection error wrote
\* nothing and was delivered nothing.
C4_NoPendingAfterReturn ==
    \A c \in Calls :
        (pc[c] = "done" /\ csess[c] # Nil) =>
            /\ Uuid(c) \notin DOMAIN pending[csess[c]]
            /\ result[c].kind = "connerr" =>
                   (Uuid(c) \notin wire[csess[c]] /\ ch[c] = <<>>)

\* A send failed to write while another send waits on the same session.
C4_Witness ==
    \E c, d \in Calls :
        /\ csess[c] = csess[d]
        /\ result[c].kind = "connerr"
        /\ pc[d] = "wait"
        /\ DOMAIN pending[csess[c]] = {Uuid(d)}

\* C5: the teardown of a session removes only that session's own registry
\* entry: while the read loop of the session that registered a name last is
\* running, the registry maps the name to that session.
C5_TeardownRemovesOwnEntry ==
    \A s \in Sessions :
        (/\ Running(s)
         /\ \A s2 \in Sessions :
               s2 > s => ~(conn[s2] # "none" /\ service[s2] = service[s]))
        => get(tunnels, service[s]) = s

\* C10: a session is created and registered only by a /ws request whose
\* token is the relay's and whose service name is not empty; a token mismatch
\* is answered unauthorized, an empty service name bad request, and both
\* leave the registry and every session as they were.
C10_OnlyAuthenticatedSessions ==
    [][\A k \in Sessions :
          /\ (conn[k] = "none" /\ conn'[k] # "none") =>
                /\ wsReq'[k].token = authToken
                /\ wsReq'[k].service # Empty
                /\ wsStatus'[k] = "registered"
                /\ get(tunnels', wsReq'[k].service) = k
          /\ (wsStatus[k] = "none" /\ wsStatus'[k] # "none") =>
                /\ wsReq'[k].token # authToken => wsStatus'[k] = "unauthorized"
                /\ (wsReq'[k].token = authToken /\ wsReq'[k].service = Empty)
                       => wsStatus'[k] = "badrequest"
                /\ wsStatus'[k] \in {"unauthorized", "badrequest"} =>
                       UNCHANGED <<tunnels, service, conn, pending, rl, wire,
                                   mu, nCalls, pc, csess, ch, result, reply>>
      ]_svars

\* A /ws request with a wrong token was rejected while a session with a
\* waiting send was registered.
C10_Witness ==
    \E k, j \in Sessions :
        /\ wsStatus[k] = "unauthorized"
        /\ conn[j] = "open"
        /\ get(tunnels, service[j]) = j
        /\ \E c \in Calls : csess[c] = j /\ pc[c] = "wait"

\* C11: every public request the router handles gets exactly one completed
\* response, decided by the outcome: 400 without a service segment, 502 for
\* an unregistered name, 502 "tunnel error" when send returned the write
\* error or the timeout, the tunneled Response when send returned one (and
\* 500 when the request body could not be read); nothing is written to the
\* caller before the handler knows the outcome.
C11_RouterCompletes ==
    \A c \in Calls :
        /\ pc[c] # "done" => reply[c] = "none"
        /\ pc[c] = "done" =>
              /\ reply[c] \in {"400 no service", "502 not found", "500 body",
                               "502 tunnel error", "response"}
              /\ result[c].kind = "notfound" => reply[c] = "502 not found"
              /\ result[c].kind \in {"connerr", "timeout"} =>
                     reply[c] = "502 tunnel error"
              /\ result[c].kind = "resp" => reply[c] = "response"

\* C15: the write lock of a session is held only by a send that is writing
\* its Request: a send that waits for its response, or that returned, never
\* holds it, so a later send on the session takes the lock and writes while
\* an earlier one waits.
C15_WriteLockOnlyWhileWriting ==
    /\ \A s \in Sessions :
          mu[s] # Nil => (pc[mu[s]] = "writing" /\ csess[mu[s]] = s)
    /\ \A c, d \in Calls :
          (/\ c # d
           /\ csess[c] = csess[d]
           /\ pc[c] = "wait"
           /\ pc[d] = "write"
           /\ \A e \in Calls : csess[e] = csess[d] => pc[e] # "writing")
          => ENABLED SendLock(d)

\* A send holds the write lock of a session on which an earlier send waits
\* for its response.
C15_Witness ==
    \E c, d \in Calls :
        /\ c < d
        /\ csess[c] = csess[d]
        /\ pc[c] = "wait"
        /\ pc[d] = "writing"
        /\ mu[csess[d]] = d

\* C16: a session is torn down only after its connection failed (the read
\* error), its connection closed only after it was unregistered; the registry
\* changes only when a session registers or is torn down; a timeout of a send removes that send's pending entry and nothing
\* else, and a Response the read loop matches removes its own entry and
\* nothing else, both leaving every connection and the registry alone.
C16_TeardownOnlyOnReadError ==
    [][/\ \A s \in Sessions :
             /\ (~Terminated(s) /\ Terminated(s)') =>
                    (conn[s] = "broken" /\ conn'[s] = "closing")
             /\ (conn[s] # "closed" /\ conn'[s] = "closed") =>
                    conn[s] = "closing"
       /\ tunnels' # tunnels =>
             \E k \in Sessions :
                 \/ conn[k] = "none" /\ conn'[k] = "open"
                 \/ conn[k] = "broken" /\ conn'[k] = "closing"
       /\ \A c \in Calls :
             (pc[c] = "wait" /\ result'[c].kind = "timeout") =>
                 /\ conn' = conn
                 /\ tunnels' = tunnels
                 /\ rl' = rl
                 /\ pending' = [pending EXCEPT
                                  ![csess[c]] = MapDelete(@, Uuid(c))]
       /\ \A s \in Sessions :
             (rl[s] = <<>> /\ rl'[s] # <<>>) =>
                 /\ conn' = conn
                 /\ tunnels' = tunnels
                 /\ pending' = [pending EXCEPT
                                  ![s] = MapDelete(@, rl'[s][2])]
      ]_vars

\* A send timed out on a session that is still registered, its read loop
\* running, while another send's pending entry is in the table.
C16_Witness ==
    \E c, d \in Calls :
        /\ c # d
        /\ result[c].kind = "timeout"
        /\ csess[d] = csess[c]
        /\ Running(csess[c])
        /\ get(tunnels, service[csess[c]]) = csess[c]
        /\ DOMAIN pending[csess[c]] = {Uuid(d)}

\* C17: the teardown of a session fails no send: both its steps (the
\* unregister when the read loop returns, and the close) leave the pending
\* table, the channels and every send where they were; a send that waits on
\* a session whose read loop has returned, with its entry still pending,
\* returns, and returns the timeout error; once no send that registered a
\* waiter on the session is in flight its pending table is empty.
C17_WaitersTimeOutAfterTeardown ==
    /\ [][\A s \in Sessions :
             ((conn[s] = "broken" /\ conn'[s] = "closing")
                \/ (conn[s] = "closing" /\ conn'[s] = "closed")) =>
                 UNCHANGED <<pending, ch, pc, result, reply>>]_vars
    /\ [][\A c \in Calls :
             (/\ pc[c] = "wait"
              /\ Terminated(csess[c])
              /\ Uuid(c) \in DOMAIN pending[csess[c]]
              /\ pc'[c] = "done") => result'[c].kind = "timeout"]_vars
    /\ \A c \in Calls :
          (/\ pc[c] = "wait"
           /\ Terminated(csess[c])
           /\ Uuid(c) \in DOMAIN pending[csess[c]])
          ~> (pc[c] = "done" /\ result[c].kind = "timeout")
    /\ [](\A s \in Sessions :
             (/\ Terminated(s)
              /\ \A c \in Calls :
                    csess[c] = s =>
                        pc[c] \notin {"write", "writing", "failed", "wait"})
             => pending[s] = <<>>)

\* Two sends waited on a session when it was torn down; both have timed out
\* and the session's pending table is empty.
C17_Witness ==
    \E c, d \in Calls :
        /\ c # d
        /\ result[c].kind = "timeout"
        /\ result[d].kind = "timeout"
        /\ csess[c] = csess[d]
        /\ conn[csess[c]] = "closed"
        /\ pending[csess[c]] = <<>>

\* A Response for the request of send c was matched by the read loop: it is
\* on its way to the channel, in it, or was returned.
Matched(c) ==
    \/ \E s \in Sessions : rl[s] # <<>> /\ rl[s][1] = c
    \/ ch[c] # <<>>
    \/ result[c].kind = "resp"

\* C18: the waiter is registered before the Request is written: whenever a
\* Request is on the wire (written, and no Response for it matched so far)
\* its id is in the pending table of the session or its send has timed out.
C18_WaiterBeforeWrite ==
    \A c \in Calls :
        (csess[c] # Nil /\ Uuid(c) \in wire[csess[c]] /\ ~Matched(c)) =>
            \/ Uuid(c) \in DOMAIN pending[csess[c]]
            \/ result[c].kind = "timeout"

\* A Request is on a running session's wire after its send timed out, so a
\* late Response for it can still arrive, while another Request is on the
\* wire with its waiter in the table.
C18_Witness ==
    \E c, d \in Calls :
        /\ result[c].kind = "timeout"
        /\ csess[c] = csess[d]
        /\ Running(csess[c])
        /\ Uuid(c) \in wire[csess[c]]
        /\ Uuid(d) \in wire[csess[d]]
        /\ Uuid(d) \in DOMAIN pending[csess[d]]

\* The number of Responses the read loop has handed or is handing to the
\* channel of send c.
Deliveries(c) ==
    Len(ch[c])
      + Cardinality({s \in Sessions : rl[s] # <<>> /\ rl[s][1] = c})
      + (IF result[c].kind = "resp" THEN 1 ELSE 0)

\* C19: the read loop never blocks on a delivery: when it is about to send
\* on a channel the channel is empty, and no channel is ever sent more than
\* one Response, however many Responses the client sends with one id.
C19_DeliveryNeverBlocks ==
    /\ \A s \in Sessions : rl[s] # <<>> => ch[rl[s][1]] = <<>>
    /\ \A c \in Calls : Deliveries(c) <= 1

\* A Response is in the channel of a waiting send whose session's read loop
\* is running and can read another Response with the same id.
C19_Witness ==
    \E c \in Calls :
        /\ pc[c] = "wait"
        /\ ch[c] = <<Uuid(c)>>
        /\ Running(csess[c])
        /\ rl[csess[c]] = <<>>
        /\ Uuid(c) \in FrameIds

\* C20: a registration is never refused because of the name it carries
\* being taken; it maps the name to the new session and leaves every other
\* name's mapping, every connection, every read loop and every send as they
\* were; an unregister changes no other name's mapping, and nothing when the
\* name is absent.
C20_RegisterOverwrites ==
    [][/\ \A k \in Sessions :
             (wsStatus[k] = "none" /\ wsStatus'[k] \in {"unauthorized", "badrequest"})
                 => (wsReq'[k].token # authToken \/ wsReq'[k].service = Empty)
       /\ \A k \in Sessions :
             (conn[k] = "none" /\ conn'[k] = "open") =>
                 /\ tunnels' = [n \in DOMAIN tunnels |->
                                   IF n = service'[k] THEN k ELSE tunnels[n]]
                 /\ \A j \in Sessions \ {k} : conn'[j] = conn[j]
                 /\ UNCHANGED <<pending, rl, wire, mu, pc, csess, ch, result, reply>>
       /\ \A s \in Sessions :
             (conn[s] = "broken" /\ conn'[s] = "closing") =>
                 /\ \A n \in DOMAIN tunnels :
                       n # service[s] => tunnels'[n] = tunnels[n]
                 /\ get(tunnels, service[s]) = Nil => tunnels' = tunnels
      ]_vars

\* A name is mapped to a later session while the read loop of the session
\* it was mapped to before has just matched the Response of a send in
\* flight on it.
C20_Witness ==
    \E j, k \in Sessions :
        /\ j < k
        /\ service[j] = service[k]
        /\ get(tunnels, service[k]) = k
        /\ Running(j)
        /\ \E c \in Calls : csess[c] = j /\ rl[j] = <<c, Uuid(c)>>

\* ----------------------------------------------------------- client: claims

\* C6: when the stop signal is delivered while the client has an open
\* connection, connect returns nil and runClient makes no other connect
\* attempt: after such a signal runClient is on its reconnect path (waiting
\* out a delay, or calling connect again) only if the relay or the network
\* dropped the connection.
C6_StopWhileConnected ==
    (stopAt = "read" /\ rpc \in {"backoff", "connect"}) => cconn[nConn] = "lost"

\* C7: when the stop signal is delivered while runClient waits out a backoff
\* delay, runClient returns without calling connect again, also when
\* connections were established and lost before that wait.
C7_StopInBackoff ==
    stopAt = "backoff" => rpc \in {"backoff", "exit"}

\* C8: after k consecutive failed connect attempts and no stop signal, the
\* k-th wait is min(1s * 2^(k-1), 30s): 1s, 2s, 4s, 8s, 16s, 30s, 30s, ...
C8_BackoffSequence ==
    (rpc = "backoff" /\ nConn = 0 /\ nSignals = 0) =>
        delay = Min(BaseDelay * 2 ^ (attempt - 1), MaxDelay)

\* C9: the attempt counter is reset to 0 on every successfully established
\* connection, so that the wait after the connection is lost is the base
\* delay whatever the number of failed attempts before it.
C9_AttemptReset ==
    rpc = "read" => attempt = 0

\* C12: a handling task passes exactly one Response to the connection for
\* the Request it was started with: never more than one, one when it is
\* done, carrying the Request's id, with status 502 and a description of the
\* failure when the local request could not be built, executed or read and
\* the local service's answer otherwise.
C12_ExactlyOneResponse ==
    \A r \in Reqs :
        /\ Len(written[r]) <= 1
        /\ hpc[r] \in {"none", "run", "lock"} => written[r] = <<>>
        /\ hpc[r] \in {"writing", "done"} =>
              /\ Len(written[r]) = 1
              /\ written[r][1].id = ReqId(r)
              /\ \/ /\ written[r][1].status = StatusBadGateway
                    /\ written[r][1].body \in {"failed to create request",
                                               "local request failed",
                                               "failed to read response"}
                 \/ /\ written[r][1].status = LocalStatus
                    /\ written[r][1].body = "local"

\* Two tasks are done: one answered its Request with the local service's
\* response, the other with the 502 for a body it could not read.
C12_Witness ==
    \E r, q \in Reqs :
        /\ hpc[r] = "done"
        /\ hpc[q] = "done"
        /\ written[r] = <<[id |-> ReqId(r), status |-> LocalStatus, body |-> "local"]>>
        /\ written[q] = <<[id |-> ReqId(q), status |-> StatusBadGateway,
                           body |-> "failed to read response"]>>

\* C13: at no time are two tasks writing a frame on the same connection of
\* the client, the handling tasks and the stop-watcher with its close frame
\* counted.
C13_WritesSerialized ==
    \A k \in Conns : Cardinality(Writers(k)) <= 1

\* C14: the leading '/' of the path is stripped and the rest split at its
\* first '/': an empty service name is a routing failure; otherwise the
\* service name is what precedes that '/', and the forwarded path is '/'
\* when there is no '/' in the rest and '/' followed by what comes after it
\* otherwise, with '?' and the raw query appended when the query is not
\* empty.
C14_PathSplit ==
    pOut # NoSplit =>
        LET rest == IF pPath # Empty /\ pPath[1] = "/"
                    THEN [i \in 1..(Len(pPath) - 1) |-> pPath[i + 1]]
                    ELSE pPath
            slashes == {i \in 1..Len(rest) : rest[i] = "/"}
            first == IF slashes = {} THEN Len(rest) + 1
                     ELSE CHOOSE i \in slashes : \A j \in slashes : i <= j
            name == [i \in 1..(first - 1) |-> rest[i]]
            query == IF pQuery = Empty THEN Empty ELSE <<"?">> \o pQuery
        IN  IF name = Empty
            THEN ~pOut.ok
            ELSE /\ pOut.ok
                 /\ pOut.service = name
                 /\ pOut.forwardPath =
                       IF slashes = {}
                       THEN <<"/">> \o query
                       ELSE <<"/">>
                            \o [i \in 1..(Len(rest) - first) |-> rest[first + i]]
                            \o query

\* /a/x?y was split into the service a and the forwarded path /x?y.
C14_Witness ==
    /\ pPath = <<"/", "a", "/", "x">>
    /\ pQuery = <<"y">>
    /\ pOut = [ok |-> TRUE, service |-> <<"a">>,
               forwardPath |-> <<"/", "x", "?", "y">>]

====
